---- MODULE Spec2Model ----
(***************************************************************************)
(* Model of the order service of bitfinex-api-go, v2/rest/orders.go.       *)
(*                                                                         *)
(* The service is stateless: every public method is one synchronous        *)
(* request/response cycle through the collaborators (payload               *)
(* serialisation, request construction, execution, decoding).  One action  *)
(* per public method runs the whole method on inputs and collaborator      *)
(* behaviour drawn from small sets, and records what the caller and the    *)
(* collaborators observed: the collaborator calls made, the request handed *)
(* to the executor, the returned value and the returned error.             *)
(***************************************************************************)
EXTENDS Integers, Sequences, FiniteSets, TLC

VARIABLES pc, op, arg, env, calls, sent, ret, err

vars == <<pc, op, arg, env, calls, sent, ret, err>>

(***************************************************************************)
(* Bounds of the model.                                                    *)
(***************************************************************************)
\* longest OrderOps sequence a caller passes to OrderMultiOp
MaxOps == 2
\* longest order snapshot the venue answers with
MaxSnap == 2
\* largest order ID the venue holds (IDs 1..MaxID)
MaxID == 2

(***************************************************************************)
(* Errors.  Each collaborator has its own error value, so the error a      *)
(* method returns names the step it came from.                             *)
(***************************************************************************)
Nil == "nil"
ErrMarshal == "json: unsupported type"
ErrNewRequest == "request construction failed"
ErrTransport == "transport failed"
ErrDecode == "decode failed"
ErrNotFound == "not found"

PermissionRead == "r"
PermissionWrite == "w"

(***************************************************************************)
(* Go values that reach encoding/json, and the JSON documents it writes.   *)
(*   string, int, slice (nil or not), map[string]T with sorted keys,       *)
(*   struct with json tags, an opaque value with its own JSON text, and a  *)
(*   value encoding/json rejects (a channel or a func).                    *)
(***************************************************************************)
GStr(s) == [g |-> "string", s |-> s]
GInt(n) == [g |-> "int", n |-> n]
GSlice(a) == [g |-> "slice", isnil |-> FALSE, a |-> a]
GNilSlice == [g |-> "slice", isnil |-> TRUE, a |-> <<>>]
GMap(kvs) == [g |-> "map", m |-> kvs]
GStruct(fields) == [g |-> "struct", f |-> fields]
GOpaque(text) == [g |-> "opaque", text |-> text]
GChan == [g |-> "chan"]

GInts(ns) == GSlice([i \in 1..Len(ns) |-> GInt(ns[i])])

JNull == [t |-> "null"]
JNum(n) == [t |-> "num", n |-> n]
JStr(s) == [t |-> "str", s |-> s]
JArr(a) == [t |-> "arr", a |-> a]
JObj(kvs) == [t |-> "obj", o |-> kvs]
JText(s) == [t |-> "text", s |-> s]
NoDoc == [t |-> "none"]

\* encoding/json: which values Marshal accepts
RECURSIVE Marshalable(_)
Marshalable(v) ==
    CASE v.g = "chan" -> FALSE
      [] v.g = "slice" -> \A i \in 1..Len(v.a) : Marshalable(v.a[i])
      [] v.g = "map" -> \A i \in 1..Len(v.m) : Marshalable(v.m[i][2])
      [] v.g = "struct" -> \A i \in 1..Len(v.f) : Marshalable(v.f[i].v)
      [] OTHER -> TRUE

\* encoding/json: the "empty value" of the omitempty option
IsEmptyValue(v) ==
    CASE v.g = "int" -> v.n = 0
      [] v.g = "string" -> v.s = ""
      [] v.g = "slice" -> Len(v.a) = 0
      [] v.g = "map" -> Len(v.m) = 0
      [] OTHER -> FALSE

\* encoding/json: the document Marshal writes for a value it accepts
RECURSIVE ToJSON(_)
ToJSON(v) ==
    CASE v.g = "string" -> JStr(v.s)
      [] v.g = "int" -> JNum(v.n)
      [] v.g = "slice" ->
            IF v.isnil THEN JNull
            ELSE JArr([i \in 1..Len(v.a) |-> ToJSON(v.a[i])])
      [] v.g = "map" ->
            JObj([i \in 1..Len(v.m) |-> <<v.m[i][1], ToJSON(v.m[i][2])>>])
      [] v.g = "struct" ->
            LET kept == SelectSeq(v.f,
                          LAMBDA fld : ~(fld.omitempty /\ IsEmptyValue(fld.v)))
            IN JObj([i \in 1..Len(kept) |-> <<kept[i].name, ToJSON(kept[i].v)>>])
      [] v.g = "opaque" -> JText(v.text)
      [] OTHER -> JNull

RECURSIVE JoinWith(_, _)
JoinWith(strs, sep) ==
    IF Len(strs) = 0 THEN ""
    ELSE IF Len(strs) = 1 THEN strs[1]
    ELSE strs[1] \o sep \o JoinWith(Tail(strs), sep)

\* the bytes of a JSON document
RECURSIVE Bytes(_)
Bytes(j) ==
    CASE j.t = "null" -> "null"
      [] j.t = "num" -> ToString(j.n)
      [] j.t = "str" -> "\"" \o j.s \o "\""
      [] j.t = "arr" ->
            "[" \o JoinWith([i \in 1..Len(j.a) |-> Bytes(j.a[i])], ",") \o "]"
      [] j.t = "obj" ->
            "{" \o JoinWith([i \in 1..Len(j.o) |->
                     "\"" \o j.o[i][1] \o "\":" \o Bytes(j.o[i][2])], ",") \o "}"
      [] j.t = "text" -> j.s
      [] OTHER -> ""

\* json.Marshal(v): the bytes (with the document they spell) or an error
jsonMarshal(v) ==
    IF Marshalable(v)
    THEN [bytes |-> Bytes(ToJSON(v)), doc |-> ToJSON(v), err |-> Nil]
    ELSE [bytes |-> "", doc |-> NoDoc, err |-> ErrMarshal]

(***************************************************************************)
(* path.Join: empty elements are ignored, the rest joined with "/" and     *)
(* the result cleaned (path.Clean).                                        *)
(***************************************************************************)
RECURSIVE SplitAcc(_, _, _)
SplitAcc(s, cur, acc) ==
    IF s = "" THEN Append(acc, cur)
    ELSE IF Head(s) = "/" THEN SplitAcc(Tail(s), "", Append(acc, cur))
    ELSE SplitAcc(Tail(s), cur \o Head(s), acc)

SplitSlash(s) == SplitAcc(s, "", <<>>)

RECURSIVE CleanSegs(_, _, _)
CleanSegs(segs, stack, rooted) ==
    IF Len(segs) = 0 THEN stack
    ELSE LET h == Head(segs)
             t == Tail(segs)
         IN IF h = "" \/ h = "." THEN CleanSegs(t, stack, rooted)
            ELSE IF h = ".."
            THEN IF Len(stack) > 0 /\ stack[Len(stack)] # ".."
                 THEN CleanSegs(t, SubSeq(stack, 1, Len(stack) - 1), rooted)
                 ELSE IF rooted THEN CleanSegs(t, stack, rooted)
                 ELSE CleanSegs(t, Append(stack, ".."), rooted)
            ELSE CleanSegs(t, Append(stack, h), rooted)

pathClean(p) ==
    IF p = "" THEN "."
    ELSE LET rooted == Head(p) = "/"
             out == (IF rooted THEN "/" ELSE "")
                      \o JoinWith(CleanSegs(SplitSlash(p), <<>>, rooted), "/")
         IN IF out = "" THEN "." ELSE out

pathJoin(elems) ==
    LET ne == SelectSeq(elems, LAMBDA x : x # "")
    IN IF Len(ne) = 0 THEN "" ELSE pathClean(JoinWith(ne, "/"))

(***************************************************************************)
(* Domain values.                                                          *)
(***************************************************************************)
\* values a method returns
NilVal == [k |-> "nil"]
\* SubmitCancelOrder has no result value: its signature returns error alone
NoVal == [k |-> "none"]
\* a nil pointer dereference: the goroutine panics instead of returning
Panic == [k |-> "panic"]
OrderSnapshot(os) == [k |-> "snapshot", orders |-> os]
OrderVal(o) == [k |-> "order", o |-> o]
Notification(full) == [k |-> "notification", full |-> full]
TradeSnapshot(full) == [k |-> "trades", full |-> full]

\* raw responses of the venue
NoRaw == [k |-> "none"]
RawEmpty == [k |-> "empty"]
RawMalformed == [k |-> "malformed"]
RawPartial == [k |-> "partial"]
RawOrders(os) == [k |-> "orders", orders |-> os]
RawNotification == [k |-> "notification"]
RawTrades == [k |-> "trades"]

\* requests
NoReq == [perm |-> "", path |-> "", body |-> "", doc |-> NoDoc]

(***************************************************************************)
(* Collaborators.  e is what the collaborators do in this invocation:      *)
(* e.req and e.exec say whether request construction and execution         *)
(* succeed, e.raw is the response the venue sends.                         *)
(***************************************************************************)
NewAuthenticatedRequest(perm, path, e) ==
    IF e.req = "ok"
    THEN [req |-> [perm |-> perm, path |-> path, body |-> "", doc |-> NoDoc],
          err |-> Nil]
    ELSE [req |-> NoReq, err |-> ErrNewRequest]

NewAuthenticatedRequestWithBytes(perm, path, m, e) ==
    IF e.req = "ok"
    THEN [req |-> [perm |-> perm, path |-> path, body |-> m.bytes, doc |-> m.doc],
          err |-> Nil]
    ELSE [req |-> NoReq, err |-> ErrNewRequest]

Request(req, e) ==
    IF e.exec = "ok" THEN [raw |-> e.raw, err |-> Nil]
    ELSE [raw |-> NoRaw, err |-> ErrTransport]

\* The codec.  Its signatures return (pointer, error); a response without
\* data decodes to (nil, nil) as an order snapshot, and a response that
\* breaks half way decodes to a partly filled value together with an error.
NewOrderSnapshotFromRaw(raw) ==
    CASE raw.k = "empty" -> [val |-> NilVal, err |-> Nil]
      [] raw.k = "orders" -> [val |-> OrderSnapshot(raw.orders), err |-> Nil]
      [] raw.k = "partial" -> [val |-> OrderSnapshot(<<>>), err |-> ErrDecode]
      [] OTHER -> [val |-> NilVal, err |-> ErrDecode]

NewNotificationFromRaw(raw) ==
    CASE raw.k = "notification" -> [val |-> Notification(TRUE), err |-> Nil]
      [] raw.k = "partial" -> [val |-> Notification(FALSE), err |-> ErrDecode]
      [] OTHER -> [val |-> NilVal, err |-> ErrDecode]

NewTradeExecutionUpdateSnapshotFromRaw(raw) ==
    CASE raw.k = "trades" -> [val |-> TradeSnapshot(TRUE), err |-> Nil]
      [] raw.k = "partial" -> [val |-> TradeSnapshot(FALSE), err |-> ErrDecode]
      [] OTHER -> [val |-> NilVal, err |-> ErrDecode]

\* The order request types: ToJSON gives the wire text or an error,
\* EnrichedPayload gives the value the batch endpoint carries.
orderToJSON(order) ==
    IF order.valid
    THEN [bytes |-> order.wire, doc |-> JText(order.wire), err |-> Nil]
    ELSE [bytes |-> "", doc |-> NoDoc, err |-> ErrMarshal]

EnrichedPayload(order) ==
    IF order.valid THEN GOpaque(order.enriched) ELSE GChan

\* what one invocation did: the collaborators called, the request handed to
\* the executor, the value and the error returned
Result(c, s, r, er) == [calls |-> c, sent |-> s, ret |-> r, err |-> er]

(***************************************************************************)
(* Order Query Service.                                                    *)
(***************************************************************************)
\* variant: the path is concatenated instead of joined
activeOrdersPath_concat(symbol) == "orders" \o "/" \o symbol

activeOrdersPath(symbol) == pathJoin(<<"orders", symbol>>)

historicalOrdersPath(symbol) == pathJoin(<<"orders", symbol, "hist">>)

orderTradesPath(symbol, orderID) ==
    pathJoin(<<"order", symbol \o ":" \o ToString(orderID), "trades">>)

\* variant: the decoded snapshot is returned as it is, nil included
getActiveOrders_noNilGuard(symbol, e) ==
    LET r == NewAuthenticatedRequest(PermissionRead, activeOrdersPath(symbol), e)
        x == Request(r.req, e)
        d == NewOrderSnapshotFromRaw(x.raw)
    IN IF r.err # Nil THEN Result(<<"newRequest">>, NoReq, NilVal, r.err)
       ELSE IF x.err # Nil
       THEN Result(<<"newRequest", "execute">>, r.req, NilVal, x.err)
       ELSE IF d.err # Nil
       THEN Result(<<"newRequest", "execute", "decode">>, r.req, NilVal, d.err)
       ELSE Result(<<"newRequest", "execute", "decode">>, r.req, d.val, Nil)

getActiveOrders(symbol, e) ==
    LET r == NewAuthenticatedRequest(PermissionRead, activeOrdersPath(symbol), e)
        x == Request(r.req, e)
        d == NewOrderSnapshotFromRaw(x.raw)
    IN IF r.err # Nil THEN Result(<<"newRequest">>, NoReq, NilVal, r.err)
       ELSE IF x.err # Nil
       THEN Result(<<"newRequest", "execute">>, r.req, NilVal, x.err)
       ELSE IF d.err # Nil
       THEN Result(<<"newRequest", "execute", "decode">>, r.req, NilVal, d.err)
       ELSE IF d.val = NilVal
       THEN Result(<<"newRequest", "execute", "decode">>, r.req,
                   OrderSnapshot(<<>>), Nil)
       ELSE Result(<<"newRequest", "execute", "decode">>, r.req, d.val, Nil)

getHistoricalOrders(symbol, e) ==
    LET r == NewAuthenticatedRequest(PermissionRead, historicalOrdersPath(symbol), e)
        x == Request(r.req, e)
        d == NewOrderSnapshotFromRaw(x.raw)
    IN IF r.err # Nil THEN Result(<<"newRequest">>, NoReq, NilVal, r.err)
       ELSE IF x.err # Nil
       THEN Result(<<"newRequest", "execute">>, r.req, NilVal, x.err)
       ELSE IF d.err # Nil
       THEN Result(<<"newRequest", "execute", "decode">>, r.req, NilVal, d.err)
       ELSE IF d.val = NilVal
       THEN Result(<<"newRequest", "execute", "decode">>, r.req,
                   OrderSnapshot(<<>>), Nil)
       ELSE Result(<<"newRequest", "execute", "decode">>, r.req, d.val, Nil)

All(e) == getActiveOrders("", e)

GetBySymbol(symbol, e) == getActiveOrders(symbol, e)

AllHistory(e) == getHistoricalOrders("", e)

GetHistoryBySymbol(symbol, e) == getHistoricalOrders(symbol, e)

\* the loop "for _, order := range os.Snapshot": the first order with the ID
\* variant: the loop starts at the second order
scanSnapshot_skipFirst(os, orderID) ==
    LET hits == {i \in 2..Len(os.orders) : os.orders[i].ID = orderID}
    IN IF hits = {} THEN [val |-> NilVal, err |-> ErrNotFound]
       ELSE [val |-> OrderVal(os.orders[CHOOSE i \in hits : \A j \in hits : i <= j]),
             err |-> Nil]

scanSnapshot(os, orderID) ==
    LET hits == {i \in 1..Len(os.orders) : os.orders[i].ID = orderID}
    IN IF hits = {} THEN [val |-> NilVal, err |-> ErrNotFound]
       ELSE [val |-> OrderVal(os.orders[CHOOSE i \in hits : \A j \in hits : i <= j]),
             err |-> Nil]

GetByOrderId(orderID, e) ==
    LET os == All(e)
    IN IF os.err # Nil THEN Result(os.calls, os.sent, NilVal, os.err)
       ELSE IF os.ret = NilVal THEN Result(os.calls, os.sent, Panic, Nil)
       ELSE LET f == scanSnapshot(os.ret, orderID)
            IN Result(os.calls, os.sent, f.val, f.err)

GetHistoryByOrderId(orderID, e) ==
    LET os == AllHistory(e)
    IN IF os.err # Nil THEN Result(os.calls, os.sent, NilVal, os.err)
       ELSE IF os.ret = NilVal THEN Result(os.calls, os.sent, Panic, Nil)
       ELSE LET f == scanSnapshot(os.ret, orderID)
            IN Result(os.calls, os.sent, f.val, f.err)

OrderTrades(symbol, orderID, e) ==
    LET r == NewAuthenticatedRequest(PermissionRead,
                                     orderTradesPath(symbol, orderID), e)
        x == Request(r.req, e)
        d == NewTradeExecutionUpdateSnapshotFromRaw(x.raw)
    IN IF r.err # Nil THEN Result(<<"newRequest">>, NoReq, NilVal, r.err)
       ELSE IF x.err # Nil
       THEN Result(<<"newRequest", "execute">>, r.req, NilVal, x.err)
       ELSE Result(<<"newRequest", "execute", "decode">>, r.req, d.val, d.err)

(***************************************************************************)
(* Single-Order Command Service.                                           *)
(***************************************************************************)
\* variant: a failed execution is tried once more before giving up
SubmitOrder_retry(order, e) ==
    LET m == orderToJSON(order)
        r == NewAuthenticatedRequestWithBytes(PermissionWrite,
                 pathJoin(<<"order", "submit">>), m, e)
        x == Request(r.req, e)
        d == NewNotificationFromRaw(x.raw)
    IN IF m.err # Nil THEN Result(<<"marshal">>, NoReq, NilVal, m.err)
       ELSE IF r.err # Nil
       THEN Result(<<"marshal", "newRequest">>, NoReq, NilVal, r.err)
       ELSE IF x.err # Nil
       THEN Result(<<"marshal", "newRequest", "execute", "execute">>, r.req,
                   NilVal, x.err)
       ELSE Result(<<"marshal", "newRequest", "execute", "decode">>, r.req,
                   d.val, d.err)

SubmitOrder(order, e) ==
    LET m == orderToJSON(order)
        r == NewAuthenticatedRequestWithBytes(PermissionWrite,
                 pathJoin(<<"order", "submit">>), m, e)
        x == Request(r.req, e)
        d == NewNotificationFromRaw(x.raw)
    IN IF m.err # Nil THEN Result(<<"marshal">>, NoReq, NilVal, m.err)
       ELSE IF r.err # Nil
       THEN Result(<<"marshal", "newRequest">>, NoReq, NilVal, r.err)
       ELSE IF x.err # Nil
       THEN Result(<<"marshal", "newRequest", "execute">>, r.req, NilVal, x.err)
       ELSE Result(<<"marshal", "newRequest", "execute", "decode">>, r.req,
                   d.val, d.err)

SubmitUpdateOrder(order, e) ==
    LET m == orderToJSON(order)
        r == NewAuthenticatedRequestWithBytes(PermissionWrite,
                 pathJoin(<<"order", "update">>), m, e)
        x == Request(r.req, e)
        d == NewNotificationFromRaw(x.raw)
    IN IF m.err # Nil THEN Result(<<"marshal">>, NoReq, NilVal, m.err)
       ELSE IF r.err # Nil
       THEN Result(<<"marshal", "newRequest">>, NoReq, NilVal, r.err)
       ELSE IF x.err # Nil
       THEN Result(<<"marshal", "newRequest", "execute">>, r.req, NilVal, x.err)
       ELSE Result(<<"marshal", "newRequest", "execute", "decode">>, r.req,
                   d.val, d.err)

\* returns error alone; the response (_, err = s.Request(req)) is dropped
SubmitCancelOrder(oc, e) ==
    LET m == orderToJSON(oc)
        r == NewAuthenticatedRequestWithBytes(PermissionWrite,
                 pathJoin(<<"order", "cancel">>), m, e)
        x == Request(r.req, e)
    IN IF m.err # Nil THEN Result(<<"marshal">>, NoReq, NoVal, m.err)
       ELSE IF r.err # Nil
       THEN Result(<<"marshal", "newRequest">>, NoReq, NoVal, r.err)
       ELSE IF x.err # Nil
       THEN Result(<<"marshal", "newRequest", "execute">>, r.req, NoVal, x.err)
       ELSE Result(<<"marshal", "newRequest", "execute">>, r.req, NoVal, Nil)

(***************************************************************************)
(* Multi-Op Batch Builder.                                                 *)
(***************************************************************************)
\* type CancelOrderMultiRequest, with its json tags
\* variant: the id field lacks the omitempty option
CancelOrderMultiRequest_idAlways(args) ==
    GStruct(<<[name |-> "id", omitempty |-> FALSE, v |-> args.OrderIDs],
              [name |-> "gid", omitempty |-> TRUE, v |-> args.GroupOrderIDs],
              [name |-> "cid", omitempty |-> TRUE, v |-> args.ClientOrderIDs],
              [name |-> "all", omitempty |-> TRUE, v |-> GInt(args.All)]>>)

CancelOrderMultiRequest(args) ==
    GStruct(<<[name |-> "id", omitempty |-> TRUE, v |-> args.OrderIDs],
              [name |-> "gid", omitempty |-> TRUE, v |-> args.GroupOrderIDs],
              [name |-> "cid", omitempty |-> TRUE, v |-> args.ClientOrderIDs],
              [name |-> "all", omitempty |-> TRUE, v |-> GInt(args.All)]>>)

\* type OrderMultiOpsRequest, with its json tag
OrderMultiOpsRequest(ops) ==
    GStruct(<<[name |-> "ops", omitempty |-> FALSE, v |-> ops]>>)

CancelOrderMulti(args, e) ==
    LET m == jsonMarshal(CancelOrderMultiRequest(args))
        r == NewAuthenticatedRequestWithBytes(PermissionWrite,
                 pathJoin(<<"order", "cancel", "multi">>), m, e)
        x == Request(r.req, e)
        d == NewNotificationFromRaw(x.raw)
    IN IF m.err # Nil THEN Result(<<"marshal">>, NoReq, NilVal, m.err)
       ELSE IF r.err # Nil
       THEN Result(<<"marshal", "newRequest">>, NoReq, NilVal, r.err)
       ELSE IF x.err # Nil
       THEN Result(<<"marshal", "newRequest", "execute">>, r.req, NilVal, x.err)
       ELSE Result(<<"marshal", "newRequest", "execute", "decode">>, r.req,
                   d.val, d.err)

\* the payload literals of the four helpers
\* variant: the single-cancel tag on the multi-cancel payload
cancelOrdersPld_singleTag(ids) ==
    OrderMultiOpsRequest(GSlice(<<GSlice(<<GStr("oc"),
                                           GMap(<< <<"id", ids>> >>)>>)>>))

cancelOrdersPld(ids) ==
    OrderMultiOpsRequest(GSlice(<<GSlice(<<GStr("oc_multi"),
                                           GMap(<< <<"id", ids>> >>)>>)>>))

\* variant: the operation is written flat, [tag, key, value]
cancelOrderPld_flat(orderID) ==
    OrderMultiOpsRequest(GSlice(<<GSlice(<<GStr("oc"), GStr("id"),
                                           GInt(orderID)>>)>>))

cancelOrderPld(orderID) ==
    OrderMultiOpsRequest(GSlice(<<GSlice(<<GStr("oc"),
                                           GMap(<< <<"id", GInt(orderID)>> >>)>>)>>))

orderNewPld(order) ==
    OrderMultiOpsRequest(GSlice(<<GSlice(<<GStr("on"), EnrichedPayload(order)>>)>>))

orderUpdatePld(order) ==
    OrderMultiOpsRequest(GSlice(<<GSlice(<<GStr("ou"), EnrichedPayload(order)>>)>>))

CancelOrdersMultiOp(ids, e) ==
    LET m == jsonMarshal(cancelOrdersPld(ids))
        r == NewAuthenticatedRequestWithBytes(PermissionWrite,
                 pathJoin(<<"order", "multi">>), m, e)
        x == Request(r.req, e)
        d == NewNotificationFromRaw(x.raw)
    IN IF m.err # Nil THEN Result(<<"marshal">>, NoReq, NilVal, m.err)
       ELSE IF r.err # Nil
       THEN Result(<<"marshal", "newRequest">>, NoReq, NilVal, r.err)
       ELSE IF x.err # Nil
       THEN Result(<<"marshal", "newRequest", "execute">>, r.req, NilVal, x.err)
       ELSE Result(<<"marshal", "newRequest", "execute", "decode">>, r.req,
                   d.val, d.err)

CancelOrderMultiOp(orderID, e) ==
    LET m == jsonMarshal(cancelOrderPld(orderID))
        r == NewAuthenticatedRequestWithBytes(PermissionWrite,
                 pathJoin(<<"order", "multi">>), m, e)
        x == Request(r.req, e)
        d == NewNotificationFromRaw(x.raw)
    IN IF m.err # Nil THEN Result(<<"marshal">>, NoReq, NilVal, m.err)
       ELSE IF r.err # Nil
       THEN Result(<<"marshal", "newRequest">>, NoReq, NilVal, r.err)
       ELSE IF x.err # Nil
       THEN Result(<<"marshal", "newRequest", "execute">>, r.req, NilVal, x.err)
       ELSE Result(<<"marshal", "newRequest", "execute", "decode">>, r.req,
                   d.val, d.err)

OrderNewMultiOp(order, e) ==
    LET m == jsonMarshal(orderNewPld(order))
        r == NewAuthenticatedRequestWithBytes(PermissionWrite,
                 pathJoin(<<"order", "multi">>), m, e)
        x == Request(r.req, e)
        d == NewNotificationFromRaw(x.raw)
    IN IF m.err # Nil THEN Result(<<"marshal">>, NoReq, NilVal, m.err)
       ELSE IF r.err # Nil
       THEN Result(<<"marshal", "newRequest">>, NoReq, NilVal, r.err)
       ELSE IF x.err # Nil
       THEN Result(<<"marshal", "newRequest", "execute">>, r.req, NilVal, x.err)
       ELSE Result(<<"marshal", "newRequest", "execute", "decode">>, r.req,
                   d.val, d.err)

OrderUpdateMultiOp(order, e) ==
    LET m == jsonMarshal(orderUpdatePld(order))
        r == NewAuthenticatedRequestWithBytes(PermissionWrite,
                 pathJoin(<<"order", "multi">>), m, e)
        x == Request(r.req, e)
        d == NewNotificationFromRaw(x.raw)
    IN IF m.err # Nil THEN Result(<<"marshal">>, NoReq, NilVal, m.err)
       ELSE IF r.err # Nil
       THEN Result(<<"marshal", "newRequest">>, NoReq, NilVal, r.err)
       ELSE IF x.err # Nil
       THEN Result(<<"marshal", "newRequest", "execute">>, r.req, NilVal, x.err)
       ELSE Result(<<"marshal", "newRequest", "execute", "decode">>, r.req,
                   d.val, d.err)

\* variant: the operations are sent in reverse order
OrderMultiOp_reversed(ops, e) ==
    LET rev == [ops EXCEPT !.a = [i \in 1..Len(ops.a) |-> ops.a[Len(ops.a) + 1 - i]]]
        m == jsonMarshal(OrderMultiOpsRequest(rev))
        r == NewAuthenticatedRequestWithBytes(PermissionWrite,
                 pathJoin(<<"order", "multi">>), m, e)
        x == Request(r.req, e)
        d == NewNotificationFromRaw(x.raw)
    IN IF m.err # Nil THEN Result(<<"marshal">>, NoReq, NilVal, m.err)
       ELSE IF r.err # Nil
       THEN Result(<<"marshal", "newRequest">>, NoReq, NilVal, r.err)
       ELSE IF x.err # Nil
       THEN Result(<<"marshal", "newRequest", "execute">>, r.req, NilVal, x.err)
       ELSE Result(<<"marshal", "newRequest", "execute", "decode">>, r.req,
                   d.val, d.err)

OrderMultiOp(ops, e) ==
    LET m == jsonMarshal(OrderMultiOpsRequest(ops))
        r == NewAuthenticatedRequestWithBytes(PermissionWrite,
                 pathJoin(<<"order", "multi">>), m, e)
        x == Request(r.req, e)
        d == NewNotificationFromRaw(x.raw)
    IN IF m.err # Nil THEN Result(<<"marshal">>, NoReq, NilVal, m.err)
       ELSE IF r.err # Nil
       THEN Result(<<"marshal", "newRequest">>, NoReq, NilVal, r.err)
       ELSE IF x.err # Nil
       THEN Result(<<"marshal", "newRequest", "execute">>, r.req, NilVal, x.err)
       ELSE Result(<<"marshal", "newRequest", "execute", "decode">>, r.req,
                   d.val, d.err)

(***************************************************************************)
(* Inputs of the callers and behaviour of the collaborators.               *)
(***************************************************************************)
Symbols == {"", "tBTCUSD", "tETHUSD", "a//b", ".."}

Orders == [ID : 1..MaxID, Symbol : {"tBTCUSD", "tETHUSD"}]

Snapshots == UNION {[1..n -> Orders] : n \in 0..MaxSnap}

QueryIDs == 0..(MaxID + 1)

SnapshotRaws == {RawEmpty, RawMalformed, RawPartial}
                    \cup {RawOrders(os) : os \in Snapshots}

NotificationRaws == {RawNotification, RawEmpty, RawMalformed, RawPartial}

TradeRaws == {RawTrades, RawEmpty, RawMalformed, RawPartial}

Envs(raws) == [req : {"ok", "err"}, exec : {"ok", "err"}, raw : raws]

\* order requests (new, update, cancel): two well-formed ones and one whose
\* serialisation fails
OrderRequests ==
    {[wire |-> "{\"cid\":1}", enriched |-> "{\"cid\":1,\"meta\":{}}", valid |-> TRUE],
     [wire |-> "{\"cid\":2}", enriched |-> "{\"cid\":2,\"meta\":{}}", valid |-> TRUE],
     [wire |-> "", enriched |-> "", valid |-> FALSE]}

NoOrder == [wire |-> "", enriched |-> "", valid |-> FALSE]

IDSlices == {GNilSlice, GSlice(<<>>), GInts(<<42>>), GInts(<<1, 2, 3>>)}

GroupSlices == {GNilSlice, GSlice(<<>>), GInts(<<7>>)}

ClientSlices ==
    {GNilSlice, GSlice(<<>>),
     GSlice(<<GSlice(<<GInt(5), GStr("2020-01-01")>>)>>),
     GSlice(<<GSlice(<<GChan>>)>>)}

Filters == [OrderIDs : IDSlices, GroupOrderIDs : GroupSlices,
            ClientOrderIDs : ClientSlices, All : {0, 1}]

ZeroFilter == [OrderIDs |-> GNilSlice, GroupOrderIDs |-> GNilSlice,
               ClientOrderIDs |-> GNilSlice, All |-> 0]

CancelIDs == {42, 7}

\* elements a caller may put into an OrderOps value: the four tagged
\* operations, and slices that are not [tag, payload]
OpElems ==
    {GSlice(<<GStr("on"), GOpaque("{\"cid\":1,\"meta\":{}}")>>),
     GSlice(<<GStr("ou"), GOpaque("{\"id\":9,\"meta\":{}}")>>),
     GSlice(<<GStr("oc"), GMap(<< <<"id", GInt(42)>> >>)>>),
     GSlice(<<GStr("oc_multi"), GMap(<< <<"id", GInts(<<1, 2, 3>>)>> >>)>>),
     GSlice(<<GStr("oc")>>),
     GSlice(<<GStr("oc"), GMap(<< <<"id", GInt(42)>> >>), GInt(7)>>),
     GSlice(<<GStr("xx"), GMap(<< <<"id", GInt(42)>> >>)>>),
     GSlice(<<GStr("on"), GChan>>)}

OpsValues == {GNilSlice}
                 \cup {GSlice(a) : a \in UNION {[1..n -> OpElems] : n \in 0..MaxOps}}

NoArg == [symbol |-> "", orderID |-> 0, order |-> NoOrder, ids |-> GNilSlice,
          args |-> ZeroFilter, ops |-> GNilSlice]

NoEnv == [req |-> "ok", exec |-> "ok", raw |-> NoRaw]

(***************************************************************************)
(* The state machine.  A caller invokes one public method, which runs to   *)
(* its return; the values of the call are then dropped (nothing is kept    *)
(* between calls) and the next call starts.                                *)
(***************************************************************************)
Init ==
    /\ pc = "idle"
    /\ op = "none"
    /\ arg = NoArg
    /\ env = NoEnv
    /\ calls = <<>>
    /\ sent = NoReq
    /\ ret = NilVal
    /\ err = Nil

Invoke(name, a, e, r) ==
    /\ pc' = "returned"
    /\ op' = name
    /\ arg' = a
    /\ env' = e
    /\ calls' = r.calls
    /\ sent' = r.sent
    /\ ret' = r.ret
    /\ err' = r.err

Call_All ==
    /\ pc = "idle"
    /\ \E e \in Envs(SnapshotRaws) :
           Invoke("All", NoArg, e, All(e))

Call_GetBySymbol ==
    /\ pc = "idle"
    /\ \E symbol \in Symbols, e \in Envs(SnapshotRaws) :
           Invoke("GetBySymbol", [NoArg EXCEPT !.symbol = symbol], e,
               GetBySymbol(symbol, e))

Call_GetByOrderId ==
    /\ pc = "idle"
    /\ \E orderID \in QueryIDs, e \in Envs(SnapshotRaws) :
           Invoke("GetByOrderId", [NoArg EXCEPT !.orderID = orderID], e,
               GetByOrderId(orderID, e))

Call_AllHistory ==
    /\ pc = "idle"
    /\ \E e \in Envs(SnapshotRaws) :
           Invoke("AllHistory", NoArg, e, AllHistory(e))

Call_GetHistoryBySymbol ==
    /\ pc = "idle"
    /\ \E symbol \in Symbols, e \in Envs(SnapshotRaws) :
           Invoke("GetHistoryBySymbol", [NoArg EXCEPT !.symbol = symbol], e,
               GetHistoryBySymbol(symbol, e))

Call_GetHistoryByOrderId ==
    /\ pc = "idle"
    /\ \E orderID \in QueryIDs, e \in Envs(SnapshotRaws) :
           Invoke("GetHistoryByOrderId", [NoArg EXCEPT !.orderID = orderID], e,
               GetHistoryByOrderId(orderID, e))

Call_OrderTrades ==
    /\ pc = "idle"
    /\ \E symbol \in Symbols, orderID \in QueryIDs, e \in Envs(TradeRaws) :
           Invoke("OrderTrades",
               [NoArg EXCEPT !.symbol = symbol, !.orderID = orderID], e,
               OrderTrades(symbol, orderID, e))

Call_SubmitOrder ==
    /\ pc = "idle"
    /\ \E order \in OrderRequests, e \in Envs(NotificationRaws) :
           Invoke("SubmitOrder", [NoArg EXCEPT !.order = order], e,
               SubmitOrder(order, e))

Call_SubmitUpdateOrder ==
    /\ pc = "idle"
    /\ \E order \in OrderRequests, e \in Envs(NotificationRaws) :
           Invoke("SubmitUpdateOrder", [NoArg EXCEPT !.order = order], e,
               SubmitUpdateOrder(order, e))

Call_SubmitCancelOrder ==
    /\ pc = "idle"
    /\ \E oc \in OrderRequests, e \in Envs(NotificationRaws) :
           Invoke("SubmitCancelOrder", [NoArg EXCEPT !.order = oc], e,
               SubmitCancelOrder(oc, e))

Call_CancelOrderMulti ==
    /\ pc = "idle"
    /\ \E args \in Filters, e \in Envs(NotificationRaws) :
           Invoke("CancelOrderMulti", [NoArg EXCEPT !.args = args], e,
               CancelOrderMulti(args, e))

Call_CancelOrdersMultiOp ==
    /\ pc = "idle"
    /\ \E ids \in IDSlices, e \in Envs(NotificationRaws) :
           Invoke("CancelOrdersMultiOp", [NoArg EXCEPT !.ids = ids], e,
               CancelOrdersMultiOp(ids, e))

Call_CancelOrderMultiOp ==
    /\ pc = "idle"
    /\ \E orderID \in CancelIDs, e \in Envs(NotificationRaws) :
           Invoke("CancelOrderMultiOp", [NoArg EXCEPT !.orderID = orderID], e,
               CancelOrderMultiOp(orderID, e))

Call_OrderNewMultiOp ==
    /\ pc = "idle"
    /\ \E order \in OrderRequests, e \in Envs(NotificationRaws) :
           Invoke("OrderNewMultiOp", [NoArg EXCEPT !.order = order], e,
               OrderNewMultiOp(order, e))

Call_OrderUpdateMultiOp ==
    /\ pc = "idle"
    /\ \E order \in OrderRequests, e \in Envs(NotificationRaws) :
           Invoke("OrderUpdateMultiOp", [NoArg EXCEPT !.order = order], e,
               OrderUpdateMultiOp(order, e))

Call_OrderMultiOp ==
    /\ pc = "idle"
    /\ \E ops \in OpsValues, e \in Envs(NotificationRaws) :
           Invoke("OrderMultiOp", [NoArg EXCEPT !.ops = ops], e,
               OrderMultiOp(ops, e))

\* the values of a call are constructed per call and discarded after it
Release ==
    /\ pc = "returned"
    /\ pc' = "idle"
    /\ op' = "none"
    /\ arg' = NoArg
    /\ env' = NoEnv
    /\ calls' = <<>>
    /\ sent' = NoReq
    /\ ret' = NilVal
    /\ err' = Nil

Next ==
    \/ Call_All
    \/ Call_GetBySymbol
    \/ Call_GetByOrderId
    \/ Call_AllHistory
    \/ Call_GetHistoryBySymbol
    \/ Call_GetHistoryByOrderId
    \/ Call_OrderTrades
    \/ Call_SubmitOrder
    \/ Call_SubmitUpdateOrder
    \/ Call_SubmitCancelOrder
    \/ Call_CancelOrderMulti
    \/ Call_CancelOrdersMultiOp
    \/ Call_CancelOrderMultiOp
    \/ Call_OrderNewMultiOp
    \/ Call_OrderUpdateMultiOp
    \/ Call_OrderMultiOp
    \/ Release

Spec == Init /\ [][Next]_vars

(***************************************************************************)
(* Vocabulary of the properties.                                           *)
(***************************************************************************)
Returned == pc = "returned"

ListOps == {"All", "GetBySymbol", "AllHistory", "GetHistoryBySymbol"}

ActiveOps == {"All", "GetBySymbol"}

ByIDOps == {"GetByOrderId", "GetHistoryByOrderId"}

HelperOps == {"CancelOrdersMultiOp", "CancelOrderMultiOp", "OrderNewMultiOp",
              "OrderUpdateMultiOp"}

WriteOps == HelperOps \cup {"SubmitOrder", "SubmitUpdateOrder", "SubmitCancelOrder",
                            "CancelOrderMulti", "OrderMultiOp"}

Tags == {"on", "ou", "oc", "oc_multi"}

\* the request was built and executed, and the venue answered
Answered == env.req = "ok" /\ env.exec = "ok"

\* the orders of the venue's answer
AnswerOrders == IF env.raw.k = "orders" THEN env.raw.orders ELSE <<>>

DistinctIDs(os) ==
    \A i, j \in 1..Len(os) : os[i].ID = os[j].ID => i = j

\* the error of the first failing step of a list call, Nil when none fails
ListError ==
    IF env.req = "err" THEN ErrNewRequest
    ELSE IF env.exec = "err" THEN ErrTransport
    ELSE NewOrderSnapshotFromRaw(env.raw).err

IsPrefix(a, b) == Len(a) <= Len(b) /\ SubSeq(b, 1, Len(a)) = a

Last(a) == a[Len(a)]

\* the one-element OrderOps value [[tag, payload]]
OneOp(tag, payload) == GSlice(<<GSlice(<<GStr(tag), payload>>)>>)

\* a Go-side operation that is a 2-element [tag, payload] with a known tag
WellFormedOp(el) ==
    /\ el.g = "slice"
    /\ ~el.isnil
    /\ Len(el.a) = 2
    /\ el.a[1].g = "string"
    /\ el.a[1].s \in Tags

\* a wire document {"ops": [[tag, payload], ...]} with known tags
WellShapedDoc(doc) ==
    /\ doc.t = "obj"
    /\ Len(doc.o) = 1
    /\ doc.o[1][1] = "ops"
    /\ doc.o[1][2].t = "arr"
    /\ \A i \in 1..Len(doc.o[1][2].a) :
          LET el == doc.o[1][2].a[i]
          IN /\ el.t = "arr"
             /\ Len(el.a) = 2
             /\ el.a[1].t = "str"
             /\ el.a[1].s \in Tags

\* no "//" and no "/" at the end
NoDoubledOrTrailingSeparator(p) ==
    \A i \in 1..Len(p) :
        SubSeq(p, i, i) = "/" => (i < Len(p) /\ SubSeq(p, i + 1, i + 1) # "/")

\* a symbol of ordinary characters: non-empty, no separator, no dot segment
Ordinary(symbol) ==
    /\ symbol # ""
    /\ symbol \notin {".", ".."}
    /\ \A i \in 1..Len(symbol) : SubSeq(symbol, i, i) # "/"

\* the wire document's member for a key, when present
HasKey(doc, key) == \E i \in 1..Len(doc.o) : doc.o[i][1] = key

Member(doc, key) == doc.o[CHOOSE i \in 1..Len(doc.o) : doc.o[i][1] = key][2]

\* whether serialising the payload of the invoked write method fails
MarshalFails ==
    CASE op \in {"SubmitOrder", "SubmitUpdateOrder", "SubmitCancelOrder"} ->
            ~arg.order.valid
      [] op \in {"OrderNewMultiOp", "OrderUpdateMultiOp"} ->
            ~Marshalable(EnrichedPayload(arg.order))
      [] op = "CancelOrderMulti" -> ~Marshalable(CancelOrderMultiRequest(arg.args))
      [] op = "OrderMultiOp" -> ~Marshalable(arg.ops)
      [] OTHER -> FALSE

(***************************************************************************)
(* Properties.                                                             *)
(***************************************************************************)

\* C1: whenever a list method (All, GetBySymbol, AllHistory,
\* GetHistoryBySymbol) returns without an error the snapshot is non-nil; a
\* response the codec decodes to (nil, nil) gives the caller an empty
\* snapshot; a nil snapshot comes only together with a non-nil error.
C1_SnapshotNeverNilOnSuccess ==
    (Returned /\ op \in ListOps) =>
        /\ err = Nil => ret.k = "snapshot"
        /\ ret.k # "snapshot" => (ret = NilVal /\ err # Nil)
        /\ (Answered /\ NewOrderSnapshotFromRaw(env.raw) = [val |-> NilVal, err |-> Nil])
              => (ret = OrderSnapshot(<<>>) /\ err = Nil)

C1_Witness ==
    /\ Returned
    /\ op = "GetBySymbol"
    /\ arg.symbol = ""
    /\ Answered
    /\ env.raw = RawEmpty
    /\ ret = OrderSnapshot(<<>>)
    /\ err = Nil

\* C2: after a successful fetch of a snapshot with pairwise distinct IDs,
\* GetByOrderId and GetHistoryByOrderId return the order of the snapshot
\* whose ID is the one asked for, with no error, when there is one, and a nil
\* order with ErrNotFound when there is none; when the list call fails its
\* error is returned unchanged, and ErrNotFound is raised only after a
\* successful fetch.
C2_LookupByID ==
    (Returned /\ op \in ByIDOps) =>
        /\ (ListError = Nil /\ DistinctIDs(AnswerOrders)) =>
              IF \E i \in 1..Len(AnswerOrders) : AnswerOrders[i].ID = arg.orderID
              THEN /\ err = Nil
                   /\ ret.k = "order"
                   /\ ret.o.ID = arg.orderID
                   /\ \E i \in 1..Len(AnswerOrders) : AnswerOrders[i] = ret.o
              ELSE ret = NilVal /\ err = ErrNotFound
        /\ ListError # Nil => (ret = NilVal /\ err = ListError)
        /\ err = ErrNotFound => ListError = Nil

C2_Witness ==
    /\ Returned
    /\ op = "GetHistoryByOrderId"
    /\ Len(AnswerOrders) = 2
    /\ DistinctIDs(AnswerOrders)
    /\ AnswerOrders[2].ID = arg.orderID
    /\ ret = OrderVal(AnswerOrders[2])
    /\ err = Nil

\* C3 as stated: for every OrderOps value, OrderMultiOp sends to order/multi
\* a body whose ops array has the length of ops and whose i-th element is
\* the i-th element of ops.
C3_OpsArrayVerbatim ==
    (Returned /\ op = "OrderMultiOp" /\ sent # NoReq) =>
        /\ sent.path = "order/multi"
        /\ sent.doc.t = "obj"
        /\ Len(sent.doc.o) = 1
        /\ sent.doc.o[1][1] = "ops"
        /\ sent.doc.o[1][2].t = "arr"
        /\ Len(sent.doc.o[1][2].a) = Len(arg.ops.a)
        /\ \A i \in 1..Len(arg.ops.a) :
              sent.doc.o[1][2].a[i] = ToJSON(arg.ops.a[i])

\* C3 amended: for every non-nil OrderOps value that encoding/json accepts,
\* OrderMultiOp sends to order/multi (once the request is built) a body
\* whose ops array has the length of ops and whose i-th element is the i-th
\* element of ops; a nil OrderOps value is sent as {"ops":null}, with no
\* array.
C3_NonNilOpsArrayVerbatim ==
    (Returned /\ op = "OrderMultiOp") =>
        /\ (Marshalable(arg.ops) /\ Answered) => sent # NoReq
        /\ (sent # NoReq /\ ~arg.ops.isnil) =>
              /\ sent.path = "order/multi"
              /\ sent.doc.t = "obj"
              /\ Len(sent.doc.o) = 1
              /\ sent.doc.o[1][1] = "ops"
              /\ sent.doc.o[1][2].t = "arr"
              /\ Len(sent.doc.o[1][2].a) = Len(arg.ops.a)
              /\ \A i \in 1..Len(arg.ops.a) :
                    sent.doc.o[1][2].a[i] = ToJSON(arg.ops.a[i])
        /\ (sent # NoReq /\ arg.ops.isnil) =>
              (sent.path = "order/multi" /\ sent.body = "{\"ops\":null}")

C3_Witness ==
    /\ Returned
    /\ op = "OrderMultiOp"
    /\ Len(arg.ops.a) = 2
    /\ arg.ops.a[1] # arg.ops.a[2]
    /\ sent.body = "{\"ops\":[[\"oc_multi\",{\"id\":[1,2,3]}],[\"on\",{\"cid\":1,\"meta\":{}}]]}"

\* the OrderOps value a helper's call stands for
HelperOps1 ==
    CASE op = "CancelOrderMultiOp" ->
            OneOp("oc", GMap(<< <<"id", GInt(arg.orderID)>> >>))
      [] op = "CancelOrdersMultiOp" -> OneOp("oc_multi", GMap(<< <<"id", arg.ids>> >>))
      [] op = "OrderNewMultiOp" -> OneOp("on", EnrichedPayload(arg.order))
      [] op = "OrderUpdateMultiOp" -> OneOp("ou", EnrichedPayload(arg.order))
      [] OTHER -> GNilSlice

\* C4: CancelOrderMultiOp, CancelOrdersMultiOp, OrderNewMultiOp and
\* OrderUpdateMultiOp each do exactly what OrderMultiOp does for the
\* one-element sequence [[tag, payload]] (tags oc, oc_multi, on, ou): the
\* same request (write permission, path order/multi, same body) and the same
\* outcome; CancelOrderMultiOp(42) sends {"ops":[["oc",{"id":42}]]} and
\* CancelOrdersMultiOp([1,2,3]) sends {"ops":[["oc_multi",{"id":[1,2,3]}]]}.
C4_HelpersAreOrderMultiOp ==
    (Returned /\ op \in HelperOps) =>
        /\ Result(calls, sent, ret, err) = OrderMultiOp(HelperOps1, env)
        /\ sent # NoReq =>
              (sent.perm = PermissionWrite /\ sent.path = "order/multi")
        /\ (sent # NoReq /\ op = "CancelOrderMultiOp" /\ arg.orderID = 42) =>
              sent.body = "{\"ops\":[[\"oc\",{\"id\":42}]]}"
        /\ (sent # NoReq /\ op = "CancelOrdersMultiOp" /\ arg.ids = GInts(<<1, 2, 3>>)) =>
              sent.body = "{\"ops\":[[\"oc_multi\",{\"id\":[1,2,3]}]]}"

C4_Witness ==
    /\ Returned
    /\ op = "CancelOrdersMultiOp"
    /\ arg.ids = GInts(<<1, 2, 3>>)
    /\ sent.path = "order/multi"
    /\ sent.body = "{\"ops\":[[\"oc_multi\",{\"id\":[1,2,3]}]]}"

\* whether a field of the filter is set
FieldSet(key) ==
    CASE key = "id" -> Len(arg.args.OrderIDs.a) > 0
      [] key = "gid" -> Len(arg.args.GroupOrderIDs.a) > 0
      [] key = "cid" -> Len(arg.args.ClientOrderIDs.a) > 0
      [] key = "all" -> arg.args.All # 0

FieldValue(key) ==
    CASE key = "id" -> arg.args.OrderIDs
      [] key = "gid" -> arg.args.GroupOrderIDs
      [] key = "cid" -> arg.args.ClientOrderIDs
      [] key = "all" -> GInt(arg.args.All)

\* C5: CancelOrderMulti sends to order/cancel/multi the filter object itself
\* (no ops wrapper), holding the key id, gid, cid or all exactly when that
\* field of the filter is set (non-empty slice, non-zero flag), with the
\* field's value; an unset field is absent.  CancelOrderMulti({All: 1})
\* sends {"all":1}.
C5_FilterOmitsUnsetFields ==
    (Returned /\ op = "CancelOrderMulti" /\ sent # NoReq) =>
        /\ sent.path = "order/cancel/multi"
        /\ sent.doc.t = "obj"
        /\ \A i \in 1..Len(sent.doc.o) : sent.doc.o[i][1] \in {"id", "gid", "cid", "all"}
        /\ \A key \in {"id", "gid", "cid", "all"} :
              /\ HasKey(sent.doc, key) <=> FieldSet(key)
              /\ FieldSet(key) => Member(sent.doc, key) = ToJSON(FieldValue(key))
        /\ arg.args = [ZeroFilter EXCEPT !.All = 1] => sent.body = "{\"all\":1}"
        /\ sent.body = Bytes(sent.doc)

C5_Witness ==
    /\ Returned
    /\ op = "CancelOrderMulti"
    /\ arg.args = [ZeroFilter EXCEPT !.All = 1, !.OrderIDs = GSlice(<<>>)]
    /\ sent.path = "order/cancel/multi"
    /\ sent.body = "{\"all\":1}"

\* C6: after SubmitCancelOrder's request is executed successfully the
\* notification decoded from the response is given to the caller, and a
\* response that does not decode as a notification is not reported as
\* success.
C6_CancelSurfacesNotification ==
    (Returned /\ op = "SubmitCancelOrder" /\ arg.order.valid /\ Answered) =>
        LET d == NewNotificationFromRaw(env.raw)
        IN /\ d.err = Nil => (ret = d.val /\ err = Nil)
           /\ d.err # Nil => err # Nil

\* C7: the list methods request exactly orders and orders/hist for the empty
\* symbol, orders/S and orders/S/hist for a symbol S of ordinary characters,
\* and never a path with a doubled or a trailing separator.
C7_ListPaths ==
    (Returned /\ op \in ListOps /\ sent # NoReq) =>
        /\ NoDoubledOrTrailingSeparator(sent.path)
        /\ (arg.symbol = "" /\ op \in ActiveOps) => sent.path = "orders"
        /\ (arg.symbol = "" /\ op \notin ActiveOps) => sent.path = "orders/hist"
        /\ (Ordinary(arg.symbol) /\ op \in ActiveOps) =>
              sent.path = "orders/" \o arg.symbol
        /\ (Ordinary(arg.symbol) /\ op \notin ActiveOps) =>
              sent.path = "orders/" \o arg.symbol \o "/hist"

C7_Witness ==
    /\ Returned
    /\ op = "All"
    /\ sent.path = "orders"
    /\ sent.perm = PermissionRead

\* C8: no method returns a non-nil result together with a non-nil error.
C8_ResultOrErrorNeverBoth ==
    Returned => ~(err # Nil /\ ret \notin {NilVal, NoVal})

\* C9 as stated: every request sent to order/multi, by the helpers and by
\* OrderMultiOp with any OrderOps value, carries an ops array of 2-element
\* [tag, payload] arrays with tag on, ou, oc or oc_multi.
C9_EveryMultiRequestWellShaped ==
    (Returned /\ sent # NoReq /\ sent.path = "order/multi") =>
        WellShapedDoc(sent.doc)

\* C9 amended: every request the four helpers send to order/multi carries an
\* ops array of exactly one 2-element [tag, payload] array with the helper's
\* tag.  OrderMultiOp validates nothing: its request carries such an array
\* exactly when the caller's OrderOps value is non-nil and every element of
\* it is a 2-element [tag, payload] with tag on, ou, oc or oc_multi.
C9_HelpersWellShapedOpsVerbatim ==
    /\ (Returned /\ op \in HelperOps /\ sent # NoReq) =>
          /\ sent.path = "order/multi"
          /\ WellShapedDoc(sent.doc)
          /\ Len(sent.doc.o[1][2].a) = 1
          /\ sent.doc.o[1][2].a[1].a[1].s =
                (CASE op = "CancelOrderMultiOp" -> "oc"
                   [] op = "CancelOrdersMultiOp" -> "oc_multi"
                   [] op = "OrderNewMultiOp" -> "on"
                   [] op = "OrderUpdateMultiOp" -> "ou")
    /\ (Returned /\ op = "OrderMultiOp" /\ sent # NoReq) =>
          /\ sent.path = "order/multi"
          /\ WellShapedDoc(sent.doc) <=>
                (~arg.ops.isnil /\ \A i \in 1..Len(arg.ops.a) : WellFormedOp(arg.ops.a[i]))

C9_Witness ==
    /\ Returned
    /\ op = "OrderMultiOp"
    /\ sent # NoReq
    /\ Len(arg.ops.a) = 2
    /\ WellFormedOp(arg.ops.a[1])
    /\ ~WellFormedOp(arg.ops.a[2])
    /\ ~WellShapedDoc(sent.doc)

\* C10: in every invocation the collaborators are called in the order
\* serialise (write methods only), build request, execute, decode, each at
\* most once; the first step that fails ends the invocation with that step's
\* error and no later collaborator is called.
C10_FirstErrorStopsTheCall ==
    Returned =>
        /\ Len(calls) >= 1
        /\ IsPrefix(calls, IF op \in WriteOps
                           THEN <<"marshal", "newRequest", "execute", "decode">>
                           ELSE <<"newRequest", "execute", "decode">>)
        /\ ("execute" \in {calls[i] : i \in 1..Len(calls)}) <=> sent # NoReq
        /\ MarshalFails =>
              (calls = <<"marshal">> /\ err = ErrMarshal)
        /\ (~MarshalFails /\ env.req = "err") =>
              (Last(calls) = "newRequest" /\ err = ErrNewRequest)
        /\ (~MarshalFails /\ env.req = "ok" /\ env.exec = "err") =>
              (Last(calls) = "execute" /\ err = ErrTransport)
        /\ (~MarshalFails /\ Answered) =>
              /\ Last(calls) = (IF op = "SubmitCancelOrder" THEN "execute" ELSE "decode")
              /\ (op \in ListOps \cup ByIDOps
                      /\ NewOrderSnapshotFromRaw(env.raw).err # Nil) => err = ErrDecode
              /\ (op \in WriteOps \ {"SubmitCancelOrder"}
                      /\ NewNotificationFromRaw(env.raw).err # Nil) => err = ErrDecode
              /\ (op = "OrderTrades"
                      /\ NewTradeExecutionUpdateSnapshotFromRaw(env.raw).err # Nil)
                    => err = ErrDecode

C10_Witness ==
    /\ Returned
    /\ op = "CancelOrderMulti"
    /\ env.req = "ok"
    /\ env.exec = "err"
    /\ calls = <<"marshal", "newRequest", "execute">>
    /\ err = ErrTransport
    /\ ret = NilVal

====
